---- MODULE Spec2Model ----
(***************************************************************************)
(* A model of the dynamic hashmap of src/src/hashmap.c: an open-addressing *)
(* table keyed by byte strings (pointer + length), linear probing bounded  *)
(* by HASHMAP_MAX_CHAIN_LENGTH, growth by doubling and rehash, an iterator *)
(* with a three-way visitor result, and the two teardown paths.            *)
(*                                                                         *)
(* Every C function is an operator that takes the machine state it reads   *)
(* and returns the machine state it leaves; the actions at the end are the *)
(* calls a client program makes.                                           *)
(***************************************************************************)
EXTENDS Integers, Sequences, FiniteSets, TLC

(***************************************************************************)
(* 32-bit unsigned words of the hash computation.  A word is the pair of   *)
(* its high and low 16 bits: the values exceed the range                   *)
(* of the model checker's integers, so the arithmetic of the C code is     *)
(* carried out on the two halves, modulo 2^32.                             *)
(***************************************************************************)
Half == 65536

Pow2(n) == 2 ^ n

Word(hi, lo) == <<hi, lo>>

WordOfNat(n) == Word(n \div Half, n % Half)

(* bitwise exclusive or of two n-bit numbers, n = 8 or 16: bit i of the   *)
(* result is the sum of the two bits, modulo 2                             *)
XorBit(a, b, i) == (((a \div Pow2(i)) + (b \div Pow2(i))) % 2) * Pow2(i)

XorNibble(a, b, i) ==
  (XorBit(a, b, i) + XorBit(a, b, i + 1))
    + (XorBit(a, b, i + 2) + XorBit(a, b, i + 3))

XorN(a, b, n) ==
  (XorNibble(a, b, 0) + XorNibble(a, b, 4))
    + (IF n > 8 THEN XorNibble(a, b, 8) + XorNibble(a, b, 12) ELSE 0)

Xor16(a, b, n) == XorN(a, b, n)

WordXor(a, b) == Word(Xor16(a[1], b[1], 16), Xor16(a[2], b[2], 16))

(* a << n, for 0 <= n <= 31 *)
WordShl(a, n) ==
  IF n >= 16 THEN Word(((a[2] % Pow2(32 - n)) * Pow2(n - 16)) % Half, 0)
  ELSE Word(((a[1] % Pow2(16 - n)) * Pow2(n) + (a[2] \div Pow2(16 - n))) % Half,
            ((a[2] % Pow2(16 - n)) * Pow2(n)) % Half)

(* a >> n, for 0 <= n <= 31 *)
WordShr(a, n) ==
  IF n >= 16 THEN Word(0, a[1] \div Pow2(n - 16))
  ELSE Word(a[1] \div Pow2(n),
            (a[2] \div Pow2(n)) + (a[1] % Pow2(n)) * Pow2(16 - n))

WordAdd(a, b) ==
  LET lo == a[2] + b[2]
  IN  Word((a[1] + b[1] + (lo \div Half)) % Half, lo % Half)

(* a * b modulo 2^32, on the four bytes of each factor: the partial      *)
(* products of weight 2^32 and above do not reach the result.              *)
Byte(a, i) ==
  IF i >= 2 THEN (a[1] \div Pow2(8 * (i - 2))) % 256
  ELSE (a[2] \div Pow2(8 * i)) % 256

WordMul(a, b) ==
  LET t0 == Byte(a, 0) * Byte(b, 0)
      t1 == Byte(a, 0) * Byte(b, 1) + Byte(a, 1) * Byte(b, 0)
      t2 == Byte(a, 0) * Byte(b, 2) + Byte(a, 1) * Byte(b, 1)
              + Byte(a, 2) * Byte(b, 0)
      t3 == Byte(a, 0) * Byte(b, 3) + Byte(a, 1) * Byte(b, 2)
              + Byte(a, 2) * Byte(b, 1) + Byte(a, 3) * Byte(b, 0)
      lo == t0 + (t1 % 256) * 256
  IN  Word(((lo \div Half) + (t1 \div 256) + t2 + (t3 % 256) * 256) % Half,
           lo % Half)

(* a % m for a modulus m that fits 15 bits *)
WordMod(a, m) == ((a[1] % m) * (Half % m) + (a[2] % m)) % m

LowByte(a) == a[2] % 256

(***************************************************************************)
(* The CRC32 table of hashmapCRC32, entry by entry as in the source, each  *)
(* entry written as its high and low 16 bits.                              *)
(***************************************************************************)
crc32tab ==
  <<
    <<\h0000, \h0000>>, <<\hF26B, \h8303>>, <<\hE13B, \h70F7>>, <<\h1350, \hF3F4>>, <<\hC79A, \h971F>>,
    <<\h35F1, \h141C>>, <<\h26A1, \hE7E8>>, <<\hD4CA, \h64EB>>, <<\h8AD9, \h58CF>>, <<\h78B2, \hDBCC>>,
    <<\h6BE2, \h2838>>, <<\h9989, \hAB3B>>, <<\h4D43, \hCFD0>>, <<\hBF28, \h4CD3>>, <<\hAC78, \hBF27>>,
    <<\h5E13, \h3C24>>, <<\h105E, \hC76F>>, <<\hE235, \h446C>>, <<\hF165, \hB798>>, <<\h030E, \h349B>>,
    <<\hD7C4, \h5070>>, <<\h25AF, \hD373>>, <<\h36FF, \h2087>>, <<\hC494, \hA384>>, <<\h9A87, \h9FA0>>,
    <<\h68EC, \h1CA3>>, <<\h7BBC, \hEF57>>, <<\h89D7, \h6C54>>, <<\h5D1D, \h08BF>>, <<\hAF76, \h8BBC>>,
    <<\hBC26, \h7848>>, <<\h4E4D, \hFB4B>>, <<\h20BD, \h8EDE>>, <<\hD2D6, \h0DDD>>, <<\hC186, \hFE29>>,
    <<\h33ED, \h7D2A>>, <<\hE727, \h19C1>>, <<\h154C, \h9AC2>>, <<\h061C, \h6936>>, <<\hF477, \hEA35>>,
    <<\hAA64, \hD611>>, <<\h580F, \h5512>>, <<\h4B5F, \hA6E6>>, <<\hB934, \h25E5>>, <<\h6DFE, \h410E>>,
    <<\h9F95, \hC20D>>, <<\h8CC5, \h31F9>>, <<\h7EAE, \hB2FA>>, <<\h30E3, \h49B1>>, <<\hC288, \hCAB2>>,
    <<\hD1D8, \h3946>>, <<\h23B3, \hBA45>>, <<\hF779, \hDEAE>>, <<\h0512, \h5DAD>>, <<\h1642, \hAE59>>,
    <<\hE429, \h2D5A>>, <<\hBA3A, \h117E>>, <<\h4851, \h927D>>, <<\h5B01, \h6189>>, <<\hA96A, \hE28A>>,
    <<\h7DA0, \h8661>>, <<\h8FCB, \h0562>>, <<\h9C9B, \hF696>>, <<\h6EF0, \h7595>>, <<\h417B, \h1DBC>>,
    <<\hB310, \h9EBF>>, <<\hA040, \h6D4B>>, <<\h522B, \hEE48>>, <<\h86E1, \h8AA3>>, <<\h748A, \h09A0>>,
    <<\h67DA, \hFA54>>, <<\h95B1, \h7957>>, <<\hCBA2, \h4573>>, <<\h39C9, \hC670>>, <<\h2A99, \h3584>>,
    <<\hD8F2, \hB687>>, <<\h0C38, \hD26C>>, <<\hFE53, \h516F>>, <<\hED03, \hA29B>>, <<\h1F68, \h2198>>,
    <<\h5125, \hDAD3>>, <<\hA34E, \h59D0>>, <<\hB01E, \hAA24>>, <<\h4275, \h2927>>, <<\h96BF, \h4DCC>>,
    <<\h64D4, \hCECF>>, <<\h7784, \h3D3B>>, <<\h85EF, \hBE38>>, <<\hDBFC, \h821C>>, <<\h2997, \h011F>>,
    <<\h3AC7, \hF2EB>>, <<\hC8AC, \h71E8>>, <<\h1C66, \h1503>>, <<\hEE0D, \h9600>>, <<\hFD5D, \h65F4>>,
    <<\h0F36, \hE6F7>>, <<\h61C6, \h9362>>, <<\h93AD, \h1061>>, <<\h80FD, \hE395>>, <<\h7296, \h6096>>,
    <<\hA65C, \h047D>>, <<\h5437, \h877E>>, <<\h4767, \h748A>>, <<\hB50C, \hF789>>, <<\hEB1F, \hCBAD>>,
    <<\h1974, \h48AE>>, <<\h0A24, \hBB5A>>, <<\hF84F, \h3859>>, <<\h2C85, \h5CB2>>, <<\hDEEE, \hDFB1>>,
    <<\hCDBE, \h2C45>>, <<\h3FD5, \hAF46>>, <<\h7198, \h540D>>, <<\h83F3, \hD70E>>, <<\h90A3, \h24FA>>,
    <<\h62C8, \hA7F9>>, <<\hB602, \hC312>>, <<\h4469, \h4011>>, <<\h5739, \hB3E5>>, <<\hA552, \h30E6>>,
    <<\hFB41, \h0CC2>>, <<\h092A, \h8FC1>>, <<\h1A7A, \h7C35>>, <<\hE811, \hFF36>>, <<\h3CDB, \h9BDD>>,
    <<\hCEB0, \h18DE>>, <<\hDDE0, \hEB2A>>, <<\h2F8B, \h6829>>, <<\h82F6, \h3B78>>, <<\h709D, \hB87B>>,
    <<\h63CD, \h4B8F>>, <<\h91A6, \hC88C>>, <<\h456C, \hAC67>>, <<\hB707, \h2F64>>, <<\hA457, \hDC90>>,
    <<\h563C, \h5F93>>, <<\h082F, \h63B7>>, <<\hFA44, \hE0B4>>, <<\hE914, \h1340>>, <<\h1B7F, \h9043>>,
    <<\hCFB5, \hF4A8>>, <<\h3DDE, \h77AB>>, <<\h2E8E, \h845F>>, <<\hDCE5, \h075C>>, <<\h92A8, \hFC17>>,
    <<\h60C3, \h7F14>>, <<\h7393, \h8CE0>>, <<\h81F8, \h0FE3>>, <<\h5532, \h6B08>>, <<\hA759, \hE80B>>,
    <<\hB409, \h1BFF>>, <<\h4662, \h98FC>>, <<\h1871, \hA4D8>>, <<\hEA1A, \h27DB>>, <<\hF94A, \hD42F>>,
    <<\h0B21, \h572C>>, <<\hDFEB, \h33C7>>, <<\h2D80, \hB0C4>>, <<\h3ED0, \h4330>>, <<\hCCBB, \hC033>>,
    <<\hA24B, \hB5A6>>, <<\h5020, \h36A5>>, <<\h4370, \hC551>>, <<\hB11B, \h4652>>, <<\h65D1, \h22B9>>,
    <<\h97BA, \hA1BA>>, <<\h84EA, \h524E>>, <<\h7681, \hD14D>>, <<\h2892, \hED69>>, <<\hDAF9, \h6E6A>>,
    <<\hC9A9, \h9D9E>>, <<\h3BC2, \h1E9D>>, <<\hEF08, \h7A76>>, <<\h1D63, \hF975>>, <<\h0E33, \h0A81>>,
    <<\hFC58, \h8982>>, <<\hB215, \h72C9>>, <<\h407E, \hF1CA>>, <<\h532E, \h023E>>, <<\hA145, \h813D>>,
    <<\h758F, \hE5D6>>, <<\h87E4, \h66D5>>, <<\h94B4, \h9521>>, <<\h66DF, \h1622>>, <<\h38CC, \h2A06>>,
    <<\hCAA7, \hA905>>, <<\hD9F7, \h5AF1>>, <<\h2B9C, \hD9F2>>, <<\hFF56, \hBD19>>, <<\h0D3D, \h3E1A>>,
    <<\h1E6D, \hCDEE>>, <<\hEC06, \h4EED>>, <<\hC38D, \h26C4>>, <<\h31E6, \hA5C7>>, <<\h22B6, \h5633>>,
    <<\hD0DD, \hD530>>, <<\h0417, \hB1DB>>, <<\hF67C, \h32D8>>, <<\hE52C, \hC12C>>, <<\h1747, \h422F>>,
    <<\h4954, \h7E0B>>, <<\hBB3F, \hFD08>>, <<\hA86F, \h0EFC>>, <<\h5A04, \h8DFF>>, <<\h8ECE, \hE914>>,
    <<\h7CA5, \h6A17>>, <<\h6FF5, \h99E3>>, <<\h9D9E, \h1AE0>>, <<\hD3D3, \hE1AB>>, <<\h21B8, \h62A8>>,
    <<\h32E8, \h915C>>, <<\hC083, \h125F>>, <<\h1449, \h76B4>>, <<\hE622, \hF5B7>>, <<\hF572, \h0643>>,
    <<\h0719, \h8540>>, <<\h590A, \hB964>>, <<\hAB61, \h3A67>>, <<\hB831, \hC993>>, <<\h4A5A, \h4A90>>,
    <<\h9E90, \h2E7B>>, <<\h6CFB, \hAD78>>, <<\h7FAB, \h5E8C>>, <<\h8DC0, \hDD8F>>, <<\hE330, \hA81A>>,
    <<\h115B, \h2B19>>, <<\h020B, \hD8ED>>, <<\hF060, \h5BEE>>, <<\h24AA, \h3F05>>, <<\hD6C1, \hBC06>>,
    <<\hC591, \h4FF2>>, <<\h37FA, \hCCF1>>, <<\h69E9, \hF0D5>>, <<\h9B82, \h73D6>>, <<\h88D2, \h8022>>,
    <<\h7AB9, \h0321>>, <<\hAE73, \h67CA>>, <<\h5C18, \hE4C9>>, <<\h4F48, \h173D>>, <<\hBD23, \h943E>>,
    <<\hF36E, \h6F75>>, <<\h0105, \hEC76>>, <<\h1255, \h1F82>>, <<\hE03E, \h9C81>>, <<\h34F4, \hF86A>>,
    <<\hC69F, \h7B69>>, <<\hD5CF, \h889D>>, <<\h27A4, \h0B9E>>, <<\h79B7, \h37BA>>, <<\h8BDC, \hB4B9>>,
    <<\h988C, \h474D>>, <<\h6AE7, \hC44E>>, <<\hBE2D, \hA0A5>>, <<\h4C46, \h23A6>>, <<\h5F16, \hD052>>,
    <<\hAD7D, \h5351>>
  >>

(***************************************************************************)
(* Key memory.  The table never copies key bytes: a key is a pointer into  *)
(* caller memory and an explicit length.  KeyMem is the caller's memory,   *)
(* one byte per cell, addressed from 1 (0 is the null pointer).            *)
(*   cells 1..8    eight zero bytes                                        *)
(*   cell  9       ")"  so that (9 - n, n + 1), n = 0..8, are the strings  *)
(*                      0^n ")": nine different keys with one CRC, hence   *)
(*                      one start index at every table size                *)
(*   cell  10      ";"                                                     *)
(*   cells 11..18  eight zero bytes                                        *)
(*   cell  19      " "  (19 - n, n + 1), n = 0..8: nine more keys with one *)
(*                      CRC                                                *)
(*   cell  20      "."                                                     *)
(*   cell  21      ")"  a second copy of the bytes of cell 9               *)
(***************************************************************************)
KeyMem == <<0, 0, 0, 0, 0, 0, 0, 0, 41, 59,
            0, 0, 0, 0, 0, 0, 0, 0, 32, 46, 41>>

Key(p, l) == [ptr |-> p, len |-> l]

(* Strict(v, w) is w, with v evaluated first: the steps of a loop are      *)
(* computed in the order of the loop.                                      *)
Strict(v, w) == IF v = v THEN w ELSE w

(* unsigned hashmapCRC32(const char* s, unsigned len) *)
(* crc32tab[(unsigned char)crc32val ^ (unsigned char)s[i]] ^ (crc32val >> 8) *)
crcStep(crc32val, byte) ==
  WordXor(crc32tab[Xor16(LowByte(crc32val), byte, 8) + 1], WordShr(crc32val, 8))

RECURSIVE crcLoop(_, _, _, _)
crcLoop(s, len, i, crc32val) ==
  IF i >= len THEN crc32val
  ELSE Strict(crc32val, crcLoop(s, len, i + 1, crcStep(crc32val, KeyMem[s + i])))

hashmapCRC32(str, n) == crcLoop(str, n, 0, WordOfNat(0))

(* Robert Jenkins' 32 bit mix, then Knuth's multiplicative step with       *)
(* 2654435761 = 0x9E3779B1; the product is reduced modulo 2^32 by the      *)
(* assignment to an unsigned.                                              *)
KnuthMultiplier == Word(\h9E37, \h79B1)

(* key += (key << n) *)
AddShl(key, n) == WordAdd(key, WordShl(key, n))

(* key ^= (key >> n) *)
XorShr(key, n) == WordXor(key, WordShr(key, n))

(* the eight statements of the mix, in order *)
JenkinsSteps ==
  << <<"+= <<", 12>>, <<"^= >>", 22>>, <<"+= <<", 4>>, <<"^= >>", 9>>,
     <<"+= <<", 10>>, <<"^= >>", 2>>, <<"+= <<", 7>>, <<"^= >>", 12>> >>

mixStep(key, step) ==
  IF step[1] = "+= <<" THEN AddShl(key, step[2]) ELSE XorShr(key, step[2])

RECURSIVE mixFrom(_, _)
mixFrom(key, i) ==
  IF i > Len(JenkinsSteps) THEN key
  ELSE Strict(key, mixFrom(mixStep(key, JenkinsSteps[i]), i + 1))

JenkinsMix(k0) == WordMul(WordShr(mixFrom(k0, 1), 3), KnuthMultiplier)

(* The keys the model uses: the two families of nine keys with one CRC     *)
(* each, ";" and ".", and the second copy of ")".                          *)
FamilyA == {Key(9 - n, n + 1) : n \in 0 .. 8}

FamilyB == {Key(19 - n, n + 1) : n \in 0 .. 8}

AllKeys == FamilyA \cup FamilyB \cup {Key(10, 1), Key(20, 1), Key(21, 1)}

(* The mixed 32-bit hash of every key, computed once.  The hash is a pure  *)
(* function of the key bytes; only the final "% tableSize" depends on the  *)
(* table.                                                                  *)
MixedHash ==
  {[ptr |-> k.ptr, len |-> k.len, mixed |-> JenkinsMix(hashmapCRC32(k.ptr, k.len))] :
     k \in AllKeys}

(* unsigned hashmapStringHasher(hashmap, keystring, len):                  *)
(* the mixed CRC modulo the current table size.                            *)
hashmapStringHasher(tableSize, keystring, klen) ==
  WordMod((CHOOSE e \in MixedHash : e.ptr = keystring /\ e.len = klen).mixed,
          tableSize)

(***************************************************************************)
(* Table sizes and counts are C unsigneds.  The model holds them in        *)
(* SizeBits bits, so that the overflow of 2 * tableSize in hashmapExpand   *)
(* is within reach of the tables it builds.                                *)
(***************************************************************************)
SizeBits == 7

HASHMAP_MAX_CHAIN_LENGTH == 8

Unsigned(n) == n % Pow2(SizeBits)

(* a & b on n-bit numbers, n a power of two *)
RECURSIVE AndN(_, _, _)
AndN(a, b, n) ==
  IF n = 1 THEN a * b
  ELSE LET h == n \div 2
       IN  AndN(a \div Pow2(h), b \div Pow2(h), h) * Pow2(h)
             + AndN(a % Pow2(h), b % Pow2(h), h)

BitAnd(a, b) == AndN(a, b, 16)

(***************************************************************************)
(* HashmapElement and Hashmap.  NULL is 0, for key pointers, value         *)
(* references and array pointers alike.  The bucket array that data        *)
(* points to is carried in the struct as slots, slot i of the C array at   *)
(* index i + 1; data is the identity of the allocation.                    *)
(***************************************************************************)
ZeroElement == [key |-> 0, keyLen |-> 0, used |-> FALSE, data |-> 0]

ZeroArray(n) == [i \in 1 .. n |-> ZeroElement]

(* A Hashmap struct nothing was written to yet (a local Hashmap newHash;   *)
(* or the client's struct before hashmapCreate).  The code never reads a   *)
(* field of it before writing that field.                                  *)
NoHashmap == [tableSize |-> 0, size |-> 0, data |-> 0, slots |-> <<>>]

Slot(hm, i) == hm.slots[i + 1]

(***************************************************************************)
(* The allocator.  mem.heap[p] counts the calls of free on allocation p    *)
(* (0: still allocated).  mem.fuel is the number of calloc calls that      *)
(* will still succeed, -1 for no limit: calloc may fail at any call.       *)
(* mem.nomem counts the calloc calls that returned NULL, mem.rejected the  *)
(* hashmapCreate calls that returned 1.                                    *)
(***************************************************************************)
NewMem(heap0, fuel0) ==
  [heap |-> heap0, fuel |-> fuel0, rejected |-> 0, nomem |-> 0]

calloc(mem) ==
  IF mem.fuel = 0
    THEN [ptr |-> 0, mem |-> [mem EXCEPT !.nomem = @ + 1]]
    ELSE [ptr |-> Len(mem.heap) + 1,
          mem |-> [mem EXCEPT !.heap = Append(@, 0),
                              !.fuel = IF @ < 0 THEN @ ELSE @ - 1]]

free(mem, p) ==
  IF p = 0 THEN mem ELSE [mem EXCEPT !.heap[p] = @ + 1]

(* a hashmapCreate that checks for zero only, not for a power of two *)
hashmapCreateAnySize(initialSize, outHashmap, mem) ==
  LET out1 == [outHashmap EXCEPT !.tableSize = initialSize, !.size = 0]
      a == calloc(mem)
  IN  IF initialSize = 0
        THEN [ret |-> 1, hm |-> out1, mem |-> [mem EXCEPT !.rejected = @ + 1]]
        ELSE [ret |-> 0,
              hm |-> [out1 EXCEPT !.data = a.ptr, !.slots = ZeroArray(initialSize)],
              mem |-> a.mem]

(* int hashmapCreate(const unsigned initialSize, Hashmap* const outHashmap) *)
hashmapCreate(initialSize, outHashmap, mem) ==
  LET out1 == [outHashmap EXCEPT !.tableSize = initialSize, !.size = 0]
  IN  IF initialSize = 0 \/ BitAnd(initialSize, initialSize - 1) # 0
        THEN [ret |-> 1, hm |-> out1,
              mem |-> [mem EXCEPT !.rejected = @ + 1]]
        ELSE LET a == calloc(mem)
             IN  IF a.ptr = 0
                   THEN [ret |-> 1,
                         hm |-> [out1 EXCEPT !.data = 0, !.slots = <<>>],
                         mem |-> [a.mem EXCEPT !.rejected = @ + 1]]
                   ELSE [ret |-> 0,
                         hm |-> [out1 EXCEPT !.data = a.ptr,
                                             !.slots = ZeroArray(initialSize)],
                         mem |-> a.mem]

(* a hashmapCheckIfMatch that compares the lengths and not the bytes *)
checkIfMatchLengthOnly(element, key, len) == element.keyLen = len

(* bool hashmapCheckIfMatch(element, key, len):                            *)
(* (element->keyLen == len) && (memcmp(element->key, key, len) == 0)       *)
memcmpEqual(p, q, n) == \A i \in 0 .. n - 1 : KeyMem[p + i] = KeyMem[q + i]

hashmapCheckIfMatch(element, key, len) ==
  element.keyLen = len /\ memcmpEqual(element.key, key, len)

(* The probe loops of hashmapGetBucket, hashmapGet and hashmapRemove scan  *)
(* HASHMAP_MAX_CHAIN_LENGTH slots, curr = (curr + 1) % tableSize.          *)
ProbeAt(hm, start, i) == (start + i) % hm.tableSize

ProbeSteps == 0 .. HASHMAP_MAX_CHAIN_LENGTH - 1

Least(S) == CHOOSE m \in S : \A o \in S : m <= o

(* first loop of hashmapGetBucket: the steps at which it would return *)
MatchSteps(hm, start, key, len) ==
  {i \in ProbeSteps : /\ Slot(hm, ProbeAt(hm, start, i)).used
                      /\ hashmapCheckIfMatch(Slot(hm, ProbeAt(hm, start, i)), key, len)}

(* totalUsed: one count per loop step, not per slot *)
TotalUsed(hm, start) ==
  Cardinality({i \in ProbeSteps : Slot(hm, ProbeAt(hm, start, i)).used})

FreeSteps(hm, start) ==
  {i \in ProbeSteps : ~Slot(hm, ProbeAt(hm, start, i)).used}

(* a hashmapGetBucket without its first loop: the first unused slot of the *)
(* window, whether or not the key is in it                                 *)
getBucketFirstFree(hm, start, key, len) ==
  IF HASHMAP_MAX_CHAIN_LENGTH > TotalUsed(hm, start)
    THEN [found |-> TRUE,
          outIndex |-> ProbeAt(hm, start, Least(FreeSteps(hm, start)))]
    ELSE [found |-> FALSE, outIndex |-> 0]

(* a hashmapGetBucket whose second loop runs over the whole table: the     *)
(* first unused slot from the start index, however far                     *)
getBucketUnbounded(hm, start, key, len) ==
  IF MatchSteps(hm, start, key, len) # {}
    THEN [found |-> TRUE,
          outIndex |-> ProbeAt(hm, start, Least(MatchSteps(hm, start, key, len)))]
    ELSE [found |-> TRUE,
          outIndex |->
            ProbeAt(hm, start,
                    Least({i \in 0 .. hm.tableSize - 1 :
                             ~Slot(hm, ProbeAt(hm, start, i)).used}))]

(* a hashmapGetBucket whose second loop keeps the last unused slot of the  *)
(* window instead of returning at the first                                *)
getBucketLastFree(hm, start, key, len) ==
  IF MatchSteps(hm, start, key, len) # {}
    THEN [found |-> TRUE,
          outIndex |-> ProbeAt(hm, start, Least(MatchSteps(hm, start, key, len)))]
    ELSE IF HASHMAP_MAX_CHAIN_LENGTH > TotalUsed(hm, start)
           THEN [found |-> TRUE,
                 outIndex |->
                   ProbeAt(hm, start,
                           CHOOSE m \in FreeSteps(hm, start) :
                             \A o \in FreeSteps(hm, start) : o <= m)]
           ELSE [found |-> FALSE, outIndex |-> 0]

(* bool hashmapGetBucket(hashmap, key, len, outIndex) *)
(* the two loops, from the start index *)
getBucketFrom(hm, start, key, len) ==
  IF MatchSteps(hm, start, key, len) # {}
    THEN [found |-> TRUE,
          outIndex |-> ProbeAt(hm, start, Least(MatchSteps(hm, start, key, len)))]
    ELSE IF HASHMAP_MAX_CHAIN_LENGTH > TotalUsed(hm, start)
           THEN [found |-> TRUE,
                 outIndex |-> ProbeAt(hm, start, Least(FreeSteps(hm, start)))]
           ELSE [found |-> FALSE, outIndex |-> 0]

(* a hashmapGetBucket without "if full, return immediately" *)
getBucketScansFullTable(hm, key, len) ==
  getBucketFrom(hm, hashmapStringHasher(hm.tableSize, key, len), key, len)

hashmapGetBucket(hm, key, len) ==
  IF hm.size >= hm.tableSize
    THEN [found |-> FALSE, outIndex |-> 0]
    ELSE getBucketFrom(hm, hashmapStringHasher(hm.tableSize, key, len), key, len)

(* void* hashmapGet(hashmap, key, len): the data of the first matching     *)
(* used slot of the probe window, NULL if there is none.                   *)
getFrom(hm, start, key, len) ==
  IF MatchSteps(hm, start, key, len) # {}
    THEN Slot(hm, ProbeAt(hm, start, Least(MatchSteps(hm, start, key, len)))).data
    ELSE 0

hashmapGet(hm, key, len) ==
  getFrom(hm, hashmapStringHasher(hm.tableSize, key, len), key, len)

(* a hashmapRemove that forgets "hashmap->size--" *)
hashmapRemoveKeepsCount(hm, key, len) ==
  LET start == hashmapStringHasher(hm.tableSize, key, len)
      match == MatchSteps(hm, start, key, len)
  IN  IF match # {}
        THEN [ret |-> 0,
              hm |-> [hm EXCEPT !.slots[ProbeAt(hm, start, Least(match)) + 1] = ZeroElement]]
        ELSE [ret |-> 1, hm |-> hm]

(* a hashmapRemove that clears the first used slot of the window, without  *)
(* comparing keys                                                          *)
hashmapRemoveAnyKey(hm, key, len) ==
  LET start == hashmapStringHasher(hm.tableSize, key, len)
      taken == ProbeSteps \ FreeSteps(hm, start)
  IN  IF taken # {}
        THEN [ret |-> 0,
              hm |-> [hm EXCEPT !.slots[ProbeAt(hm, start, Least(taken)) + 1] = ZeroElement,
                                !.size = Unsigned(@ - 1 + Pow2(SizeBits))]]
        ELSE [ret |-> 1, hm |-> hm]

(* int hashmapRemove(hashmap, key, len) *)
removeFrom(hm, start, key, len) ==
  IF MatchSteps(hm, start, key, len) # {}
    THEN [ret |-> 0,
          hm |-> [hm EXCEPT
                    !.slots[ProbeAt(hm, start,
                                    Least(MatchSteps(hm, start, key, len))) + 1] =
                       ZeroElement,
                    !.size = Unsigned(@ - 1 + Pow2(SizeBits))]]
    ELSE [ret |-> 1, hm |-> hm]

hashmapRemove(hm, key, len) ==
  removeFrom(hm, hashmapStringHasher(hm.tableSize, key, len), key, len)

(* void hashmapDestroy(hashmap): free(hashmap->data); memset(hashmap, 0)   *)
hashmapDestroy(hm, mem) ==
  [hm |-> NoHashmap, mem |-> free(mem, hm.data)]

(***************************************************************************)
(* Visitors: the functions passed to hashmapApplyIterator.                 *)
(*   Rehash    hashmapRehashIterator; its context is the new Hashmap       *)
(*   LogFree   logFreeIterator; returns -1 at every call                   *)
(*   client    a visitor of the client program: it counts its calls in its *)
(*             context and returns ret (-1 remove, 0 continue) at every    *)
(*             call but call number stopAt, where it returns 1 (stop);     *)
(*             stopAt = 0: it never stops                                  *)
(***************************************************************************)
Rehash == [kind |-> "rehash", ret |-> -1, stopAt |-> 0]

LogFree == [kind |-> "logFree", ret |-> -1, stopAt |-> 0]

ClientVisitor(r, n) == [kind |-> "client", ret |-> r, stopAt |-> n]

(* a putValue that counts an overwrite as a new entry *)
putValueAlwaysCounts(hm, outIndex, key, len, value) ==
  [hm EXCEPT !.slots[outIndex + 1] =
                [key |-> key, keyLen |-> len, used |-> TRUE, data |-> value],
             !.size = Unsigned(@ + 1)]

(* a putValue that sets used and never increases the size *)
putValueNeverCounts(hm, outIndex, key, len, value) ==
  [hm EXCEPT !.slots[outIndex + 1] =
                [key |-> key, keyLen |-> len, used |-> TRUE, data |-> value]]

(* hashmapPut, once the bucket is known: "put the value", and "if key was  *)
(* not used yet, set to used and increase the size"                        *)
putValue(hm, outIndex, key, len, value) ==
  [hm EXCEPT !.slots[outIndex + 1] =
                [key |-> key, keyLen |-> len, used |-> TRUE, data |-> value],
             !.size = IF Slot(hm, outIndex).used THEN @ ELSE Unsigned(@ + 1)]

RECURSIVE hashmapPut(_, _, _, _, _)

(* int hashmapRehashIterator(void* newHashmap, HashmapElement* element) *)
(* flag is what hashmapPut returned *)
rehashResult(put) ==
  [ret |-> IF put.ret # 0 THEN 1 ELSE -1, ctx |-> put.hm, mem |-> put.mem]

(* a hashmapRehashIterator that clears the old slot without the put *)
rehashIteratorSkipsPut(newHashmap, element, mem) ==
  [ret |-> -1, ctx |-> newHashmap, mem |-> mem]

hashmapRehashIterator(newHashmap, element, mem) ==
  rehashResult(hashmapPut(newHashmap, element.key, element.keyLen, element.data, mem))

(* int logFreeIterator(void* context, HashmapElement* elem) *)
logFreeIterator(context, elem, mem) ==
  [ret |-> -1, ctx |-> context, mem |-> mem]

clientIterator(f, context, elem, mem) ==
  [ret |-> IF context + 1 = f.stopAt THEN 1 ELSE f.ret,
   ctx |-> context + 1, mem |-> mem]

(* f(context, elem) *)
CallVisitor(f, context, elem, mem) ==
  CASE f.kind = "rehash"  -> hashmapRehashIterator(context, elem, mem)
    [] f.kind = "logFree" -> logFreeIterator(context, elem, mem)
    [] OTHER              -> clientIterator(f, context, elem, mem)

(***************************************************************************)
(* The loop of hashmapApplyIterator.  Its state: ret is 0 while the loop   *)
(* runs and 1 once it has returned early; visited is the log of the calls  *)
(* of f, the slot index and what f returned.                               *)
(***************************************************************************)
(* a loop body that clears the slot on -1 and forgets "hashmap->size--" *)
applySlotKeepsCount(st, f, i) ==
  IF ~Slot(st.hm, i).used THEN st
  ELSE LET r   == CallVisitor(f, st.ctx, Slot(st.hm, i), st.mem)
           log == Append(st.visited, [slot |-> i, ret |-> r.ret])
       IN  [ret |-> IF r.ret \in {-1, 0} THEN 0 ELSE 1,
            hm |-> IF r.ret = -1
                     THEN [st.hm EXCEPT !.slots[i + 1] = ZeroElement]
                     ELSE st.hm,
            ctx |-> r.ctx, mem |-> r.mem, visited |-> log]

(* a loop body whose default case breaks out of the switch only *)
applySlotIgnoresStop(st, f, i) ==
  IF ~Slot(st.hm, i).used THEN st
  ELSE LET r   == CallVisitor(f, st.ctx, Slot(st.hm, i), st.mem)
           log == Append(st.visited, [slot |-> i, ret |-> r.ret])
       IN  [ret |-> 0,
            hm |-> IF r.ret = -1
                     THEN [st.hm EXCEPT !.slots[i + 1] = ZeroElement,
                                        !.size = Unsigned(@ - 1 + Pow2(SizeBits))]
                     ELSE st.hm,
            ctx |-> r.ctx, mem |-> r.mem, visited |-> log]

(* the switch on retFlag: r is what f(context, elem) returned and left *)
applyResult(st, i, r) ==
  LET log == Append(st.visited, [slot |-> i, ret |-> r.ret])
  IN  CASE r.ret = -1 ->
             [ret |-> 0,
              hm |-> [st.hm EXCEPT !.slots[i + 1] = ZeroElement,
                                   !.size = Unsigned(@ - 1 + Pow2(SizeBits))],
              ctx |-> r.ctx, mem |-> r.mem, visited |-> log]
        [] r.ret = 0 ->
             [ret |-> 0, hm |-> st.hm, ctx |-> r.ctx, mem |-> r.mem,
              visited |-> log]
        [] OTHER ->
             [ret |-> 1, hm |-> st.hm, ctx |-> r.ctx, mem |-> r.mem,
              visited |-> log]

(* the body of the loop at index i *)
applySlot(st, f, i) ==
  IF ~Slot(st.hm, i).used THEN st
  ELSE applyResult(st, i, CallVisitor(f, st.ctx, Slot(st.hm, i), st.mem))

(* the loop over the indices lo .. hi - 1, in ascending order: the lower   *)
(* half of the range, then the upper half; nothing more once it returned   *)
RECURSIVE applyRange(_, _, _, _)
applyRange(st, f, lo, hi) ==
  IF st.ret # 0 \/ hi <= lo THEN st
  ELSE IF hi - lo = 1 THEN applySlot(st, f, lo)
  ELSE applyRange(applyRange(st, f, lo, (lo + hi) \div 2),
                  f, (lo + hi) \div 2, hi)

(* a hashmapApplyIterator whose loop starts at index 1 *)
applyIteratorFromOne(hm, f, context, mem) ==
  applyRange([ret |-> 0, hm |-> hm, ctx |-> context, mem |-> mem,
              visited |-> <<>>],
             f, 1, hm.tableSize)

(* int hashmapApplyIterator(hashmap, f, context) *)
hashmapApplyIterator(hm, f, context, mem) ==
  applyRange([ret |-> 0, hm |-> hm, ctx |-> context, mem |-> mem,
              visited |-> <<>>],
             f, 0, hm.tableSize)

(* a hashmapExpand that reports failure without trying to grow *)
hashmapExpandGivesUp(hm, mem) == [ret |-> 1, hm |-> hm, mem |-> mem]

(* int hashmapExpand(Hashmap* const hashmap) *)
(* after the rehash: a is what hashmapApplyIterator returned and left, the *)
(* old table in a.hm and newHash in a.ctx                                  *)
expandRehashed(a) ==
  IF a.ret # 0
    THEN [ret |-> a.ret, hm |-> a.hm, mem |-> a.mem]
    ELSE [ret |-> 0, hm |-> a.ctx, mem |-> hashmapDestroy(a.hm, a.mem).mem]

(* a hashmapExpand that creates the new table in the caller's struct: a    *)
(* hashmapCreate that fails leaves its tableSize and size there            *)
expandCreatedInPlace(hm, c) ==
  IF c.ret # 0
    THEN [ret |-> c.ret,
          hm |-> [hm EXCEPT !.tableSize = c.hm.tableSize, !.size = c.hm.size],
          mem |-> c.mem]
    ELSE expandRehashed(hashmapApplyIterator(hm, Rehash, c.hm, c.mem))

(* after hashmapCreate(newSize, &newHash): c is what it returned and left *)
expandCreated(hm, c) ==
  IF c.ret # 0
    THEN [ret |-> c.ret, hm |-> hm, mem |-> c.mem]
    ELSE expandRehashed(hashmapApplyIterator(hm, Rehash, c.hm, c.mem))

hashmapExpand(hm, mem) ==
  expandCreated(hm, hashmapCreate(Unsigned(2 * hm.tableSize), NoHashmap, mem))

(* a hashmapPut that returns 0 when hashmapExpand failed *)
putExpandedReportsSuccess(e, key, len, value) ==
  IF e.ret # 0
    THEN [ret |-> 0, hm |-> e.hm, mem |-> e.mem]
    ELSE hashmapPut(e.hm, key, len, value, e.mem)

(* int hashmapPut(hashmap, key, len, value) *)
(* the loop after a hashmapExpand: e is what it returned and left *)
putExpanded(e, key, len, value) ==
  IF e.ret # 0
    THEN [ret |-> 1, hm |-> e.hm, mem |-> e.mem]
    ELSE hashmapPut(e.hm, key, len, value, e.mem)

(* the loop after a hashmapGetBucket: b is what it returned *)
putBucket(hm, b, key, len, value, mem) ==
  IF ~b.found
    THEN putExpanded(hashmapExpand(hm, mem), key, len, value)
    ELSE [ret |-> 0, hm |-> putValue(hm, b.outIndex, key, len, value),
          mem |-> mem]

hashmapPut(hm, key, len, value, mem) ==
  putBucket(hm, hashmapGetBucket(hm, key, len), key, len, value, mem)

(* a hashmapDestroyWithOwnership that releases the array and never calls   *)
(* the iterator                                                            *)
destroyWithoutVisiting(hm, iterator, mem) ==
  LET d == hashmapDestroy(hm, mem)
  IN  [failed |-> FALSE, hm |-> d.hm, mem |-> d.mem, visited |-> <<>>]

(* void hashmapDestroyWithOwnership(hashmap, iterator) *)
(* after the iteration: a is what hashmapApplyIterator returned and left *)
destroyIterated(a) ==
  [failed |-> a.ret # 0, hm |-> hashmapDestroy(a.hm, a.mem).hm,
   mem |-> hashmapDestroy(a.hm, a.mem).mem, visited |-> a.visited]

hashmapDestroyWithOwnership(hm, iterator, mem) ==
  destroyIterated(hashmapApplyIterator(hm, iterator, 0, mem))

(***************************************************************************)
(* The client program: one table, and the calls of the library's           *)
(* interface on it in any order, as in main() of src/src/main.c.           *)
(*                                                                         *)
(*   hm     the client's Hashmap struct                                    *)
(*   mem    the allocator                                                  *)
(*   phase  "none" before a successful hashmapCreate, "live" after it,     *)
(*          "destroyed" after hashmapDestroy / hashmapDestroyWithOwnership *)
(*   abs    the key -> value map the client expects: the set of pairs      *)
(*          <<key bytes, value>> of the successful puts not removed since  *)
(*   last   the last call: its arguments, what it returned, and the struct *)
(*          and allocator it found                                         *)
(*   ops    the number of calls so far                                     *)
(***************************************************************************)
VARIABLES hm, mem, phase, abs, last, ops

vars == <<hm, mem, phase, abs, last, ops>>

MaxOps == 2

MaxFuel == 1

MaxInitialSize == 4

MaxStopAt == 2

(* value references a client passes to hashmapPut: NULL (0), which is     *)
(* also what hashmapGet returns for "none", and two others                 *)
Values == {0, 1, 2}

(* the keys of the client's calls: ")" at two addresses, 0 ")", " ", ";",  *)
(* and the ninth key of either family                                      *)
OpKeys ==
  {Key(9, 1), Key(21, 1), Key(8, 2), Key(19, 1), Key(10, 1), Key(1, 9), Key(11, 9)}

(* calloc calls that succeed during one call of the interface *)
Fuels == {-1} \cup 0 .. MaxFuel

Visitors ==
  {LogFree} \cup {ClientVisitor(r, n) : r \in {-1, 0}, n \in 0 .. MaxStopAt}

(* the bytes of a key *)
Content(k) == SubSeq(KeyMem, k.ptr, k.ptr + k.len - 1)

AbsPut(m, k, v) == {e \in m : e[1] # Content(k)} \cup {<<Content(k), v>>}

AbsRemove(m, k) == {e \in m : e[1] # Content(k)}

AbsGet(m, k) ==
  IF \E e \in m : e[1] = Content(k)
    THEN (CHOOSE e \in m : e[1] = Content(k))[2]
    ELSE 0

NoCall ==
  [op |-> "none", key |-> Key(0, 0), value |-> 0, initialSize |-> 0,
   fuel |-> 0, f |-> LogFree, ret |-> 0, got |-> 0, visited |-> <<>>,
   before |-> NoHashmap, memBefore |-> NewMem(<<>>, 0),
   prev |-> [op |-> "none", f |-> LogFree, ret |-> 0]]

(* the record of a call made in the current state *)
Call(op, fields) ==
  [n \in DOMAIN NoCall |->
     IF n \in DOMAIN fields THEN fields[n]
     ELSE IF n = "op" THEN op
     ELSE IF n = "before" THEN hm
     ELSE IF n = "memBefore" THEN mem
     ELSE IF n = "prev" THEN [op |-> last.op, f |-> last.f, ret |-> last.ret]
     ELSE NoCall[n]]

(* A table filled as a client fills it: hashmapCreate(c), then one         *)
(* hashmapPut per key of ks, every allocation succeeding.                  *)
(* the puts of ks[lo] .. ks[hi] in this order, up to the first that fails: *)
(* the lower half of the range, then the upper half                        *)
RECURSIVE putAll(_, _, _, _)
putAll(r, ks, lo, hi) ==
  IF r.ret # 0 \/ hi < lo THEN r
  ELSE IF lo = hi THEN hashmapPut(r.hm, ks[lo].ptr, ks[lo].len, 1, r.mem)
  ELSE putAll(putAll(r, ks, lo, (lo + hi) \div 2), ks, (lo + hi) \div 2 + 1, hi)

Filled(c, ks) ==
  putAll(hashmapCreate(c, NoHashmap, NewMem(<<>>, -1)), ks, 1, Len(ks))

(* 16 slots: 0^n ")" for n = 0..7, all starting at slot 15, and ";" *)
Keys16 == [n \in 1 .. 9 |-> IF n = 9 THEN Key(10, 1) ELSE Key(10 - n, n)]

(* 32 slots: 0^n " " for n = 0..7, all starting at slot 31, and "." *)
Keys32 == [n \in 1 .. 9 |-> IF n = 9 THEN Key(20, 1) ELSE Key(20 - n, n)]

(* 2 slots, both taken: ";" and "." *)
Keys2 == <<Key(10, 1), Key(20, 1)>>

Loaded == {[t |-> Filled(2, Keys2), ks |-> Keys2],
           [t |-> Filled(16, Keys16), ks |-> Keys16],
           [t |-> Filled(32, Keys32), ks |-> Keys32]}

Init ==
  /\ last = NoCall
  /\ ops = 0
  /\ \/ /\ hm = NoHashmap
        /\ mem = NewMem(<<>>, 0)
        /\ phase = "none"
        /\ abs = {}
     \/ \E L \in Loaded :
          /\ hm = L.t.hm
          /\ mem = [L.t.mem EXCEPT !.fuel = 0]
          /\ phase = "live"
          /\ abs = {<<Content(L.ks[n]), 1>> : n \in DOMAIN L.ks}

(* hashmapCreate(c, &hashmap); r is what the call returned and left *)
Created(c, fuel, r) ==
  /\ hm' = r.hm
  /\ mem' = [r.mem EXCEPT !.fuel = 0, !.rejected = 0, !.nomem = 0]
  /\ phase' = IF r.ret = 0 THEN "live" ELSE "none"
  /\ last' = Call("create", [initialSize |-> c, fuel |-> fuel, ret |-> r.ret])
  /\ abs' = {}
  /\ ops' = ops + 1

Create(c, fuel) ==
  /\ phase = "none"
  /\ ops < MaxOps
  /\ Created(c, fuel, hashmapCreate(c, hm, [mem EXCEPT !.fuel = fuel]))

(* hashmapPut(&hashmap, key, len, value); r is what the call returned and  *)
(* left                                                                    *)
PutReturned(k, v, r) ==
  /\ hm' = r.hm
  /\ mem' = [r.mem EXCEPT !.fuel = 0]
  /\ abs' = IF r.ret = 0 THEN AbsPut(abs, k, v) ELSE abs
  /\ last' = Call("put", [key |-> k, value |-> v, ret |-> r.ret])
  /\ phase' = phase
  /\ ops' = ops + 1

Put(k, v, fuel) ==
  /\ phase = "live"
  /\ ops < MaxOps
  /\ PutReturned(k, v, hashmapPut(hm, k.ptr, k.len, v, [mem EXCEPT !.fuel = fuel]))

(* hashmapGet(&hashmap, key, len) *)
Get(k) ==
  /\ phase = "live"
  /\ ops < MaxOps
  /\ last' = Call("get", [key |-> k, got |-> hashmapGet(hm, k.ptr, k.len)])
  /\ ops' = ops + 1
  /\ UNCHANGED <<hm, mem, phase, abs>>

(* hashmapRemove(&hashmap, key, len); r is what the call returned and left *)
RemoveReturned(k, r) ==
  /\ hm' = r.hm
  /\ last' = Call("remove", [key |-> k, ret |-> r.ret])
  /\ abs' = AbsRemove(abs, k)
  /\ ops' = ops + 1
  /\ UNCHANGED <<mem, phase>>

Remove(k) ==
  /\ phase = "live"
  /\ ops < MaxOps
  /\ RemoveReturned(k, hashmapRemove(hm, k.ptr, k.len))

(* the keys of the entries the visitor asked to remove *)
RemovedKeys(visited) ==
  {Content(Key(Slot(hm, visited[j].slot).key, Slot(hm, visited[j].slot).keyLen)) :
     j \in {n \in DOMAIN visited : visited[n].ret = -1}}

(* hashmapApplyIterator(&hashmap, f, &count); r is what the call returned  *)
(* and left.  The entries f asked to remove leave the expected map.        *)
ApplyReturned(f, r) ==
  /\ hm' = r.hm
  /\ mem' = r.mem
  /\ abs' = {e \in abs : e[1] \notin RemovedKeys(r.visited)}
  /\ last' = Call("apply", [f |-> f, ret |-> r.ret, visited |-> r.visited])
  /\ phase' = phase
  /\ ops' = ops + 1

ApplyIterator(f) ==
  /\ phase = "live"
  /\ ops < MaxOps
  /\ ApplyReturned(f, hashmapApplyIterator(hm, f, 0, mem))

(* hashmapDestroy(&hashmap) *)
Destroy ==
  /\ phase = "live"
  /\ ops < MaxOps
  /\ hm' = hashmapDestroy(hm, mem).hm
  /\ mem' = hashmapDestroy(hm, mem).mem
  /\ last' = Call("destroy", << >>)
  /\ phase' = "destroyed"
  /\ abs' = {}
  /\ ops' = ops + 1

(* hashmapDestroyWithOwnership(&hashmap, f); r is what the call left *)
DestroyedWithOwnership(f, r) ==
  /\ hm' = r.hm
  /\ mem' = r.mem
  /\ last' = Call("destroyWithOwnership",
                  [f |-> f, ret |-> IF r.failed THEN 1 ELSE 0,
                   visited |-> r.visited])
  /\ phase' = "destroyed"
  /\ abs' = {}
  /\ ops' = ops + 1

DestroyWithOwnership(f) ==
  /\ phase = "live"
  /\ ops < MaxOps
  /\ DestroyedWithOwnership(f, hashmapDestroyWithOwnership(hm, f, mem))

(* hashmapExpand(&hashmap); r is what the call returned and left *)
ExpandReturned(fuel, r) ==
  /\ hm' = r.hm
  /\ mem' = [r.mem EXCEPT !.fuel = 0]
  /\ last' = Call("expand", [fuel |-> fuel, ret |-> r.ret])
  /\ ops' = ops + 1
  /\ UNCHANGED <<phase, abs>>

Expand(fuel) ==
  /\ phase = "live"
  /\ ops < MaxOps
  /\ ExpandReturned(fuel, hashmapExpand(hm, [mem EXCEPT !.fuel = fuel]))

Next ==
  \/ \E c \in 0 .. MaxInitialSize, fuel \in Fuels : Create(c, fuel)
  \/ \E k \in OpKeys, v \in Values, fuel \in Fuels : Put(k, v, fuel)
  \/ \E k \in OpKeys : Get(k)
  \/ \E k \in OpKeys : Remove(k)
  \/ \E f \in Visitors : ApplyIterator(f)
  \/ Destroy
  \/ \E f \in Visitors : DestroyWithOwnership(f)
  \/ \E fuel \in Fuels : Expand(fuel)

Spec == Init /\ [][Next]_vars

(***************************************************************************)
(* What the calls are expected to do, stated on the last call.             *)
(***************************************************************************)
UsedSlots(h) == {i \in 0 .. h.tableSize - 1 : Slot(h, i).used}

(* the element holds the bytes of key k *)
HoldsKey(e, k) == e.used /\ Content(Key(e.key, e.keyLen)) = Content(k)

Present(h, k) == \E i \in UsedSlots(h) : HoldsKey(Slot(h, i), k)

IsPowerOfTwo(c) == \E e \in 0 .. SizeBits - 1 : c = Pow2(e)

(* the allocation of the array was released exactly once, nothing else was *)
ReleasedOnce(p) ==
  /\ Len(mem.heap) = Len(last.memBefore.heap)
  /\ \A q \in DOMAIN mem.heap :
       mem.heap[q] = last.memBefore.heap[q] + (IF q = p THEN 1 ELSE 0)
  /\ last.memBefore.heap[p] = 0

NeverStops(visited) == \A j \in DOMAIN visited : visited[j].ret \in {-1, 0}

AlwaysRemoves(f) ==
  f.kind = "logFree" \/ (f.kind = "client" /\ f.ret = -1 /\ f.stopAt = 0)

(* every slot of S is the slot of exactly one call of the visitor, and no  *)
(* other slot is                                                           *)
VisitedExactly(visited, S) ==
  /\ \A i \in S : Cardinality({j \in DOMAIN visited : visited[j].slot = i}) = 1
  /\ \A j \in DOMAIN visited : visited[j].slot \in S

(* C1: on a created table, after any puts and removes during which no     *)
(* allocation of a growth failed (no calloc returned NULL and no doubled   *)
(* capacity was refused as unrepresentable), hashmapGet returns for every  *)
(* key the value of its most recent put not removed since, and NULL for    *)
(* every other key.                                                        *)
C1_TableAgreesWithMap ==
  (phase = "live" /\ mem.rejected = 0) =>
    \A k \in AllKeys : hashmapGet(hm, k.ptr, k.len) = AbsGet(abs, k)

(* C1 case: a tenth key put into the 16-slot table of nine entries, eight  *)
(* of them with one start index; the table grew to 32 slots and, while     *)
(* the entries were moved, again to 64.                                    *)
C1_Witness ==
  /\ phase = "live" /\ mem.rejected = 0
  /\ last.op = "put" /\ last.ret = 0
  /\ last.before.tableSize = 16 /\ hm.tableSize = 64
  /\ hm.size = 10

(* C2: after a successful put(k, v), get(k) returns v; the count grew by   *)
(* one if k was absent and is unchanged if k was present; one slot holds   *)
(* k, with the key pointer, key length and value of this call.             *)
C2_PutOverwritesAndCounts ==
  (last.op = "put" /\ last.ret = 0) =>
    /\ hashmapGet(hm, last.key.ptr, last.key.len) = last.value
    /\ hm.size = last.before.size
                   + (IF Present(last.before, last.key) THEN 0 ELSE 1)
    /\ \E i \in UsedSlots(hm) :
         /\ Slot(hm, i) = [key |-> last.key.ptr, keyLen |-> last.key.len,
                           used |-> TRUE, data |-> last.value]
         /\ \A j \in UsedSlots(hm) \ {i} : ~HoldsKey(Slot(hm, j), last.key)

(* C2 case: the put overwrote another value of k, stored under another     *)
(* key pointer.                                                            *)
C2_Witness ==
  /\ last.op = "put" /\ last.ret = 0
  /\ Present(last.before, last.key)
  /\ hashmapGet(last.before, last.key.ptr, last.key.len) # last.value
  /\ \A i \in UsedSlots(last.before) : Slot(last.before, i).key # last.key.ptr

(* C3: remove(k) of a present key returns 0, zeroes the one slot that held *)
(* k and no other, takes one off the count, get(k) is NULL afterwards and  *)
(* get of every other key returns what it returned before.                 *)
C3_RemovePresent ==
  (last.op = "remove" /\ Present(last.before, last.key)) =>
    /\ last.ret = 0
    /\ hm.tableSize = last.before.tableSize
    /\ hm.size = last.before.size - 1
    /\ \E i \in UsedSlots(last.before) :
         /\ HoldsKey(Slot(last.before, i), last.key)
         /\ Slot(hm, i) = ZeroElement
         /\ \A j \in 0 .. hm.tableSize - 1 :
              j # i => Slot(hm, j) = Slot(last.before, j)
    /\ hashmapGet(hm, last.key.ptr, last.key.len) = 0
    /\ \A k \in AllKeys :
         Content(k) # Content(last.key) =>
           /\ hashmapGet(hm, k.ptr, k.len) = hashmapGet(last.before, k.ptr, k.len)
           /\ Present(last.before, k) => Present(hm, k)

(* C3 case: the removed key sat in slot 15 of the 16-slot table, the first *)
(* slot of the probe window of the eight entries that follow it.           *)
C3_Witness ==
  /\ last.op = "remove" /\ last.ret = 0
  /\ last.before.tableSize = 16 /\ last.before.size = 9
  /\ Slot(last.before, 15).used /\ ~Slot(hm, 15).used
  /\ Slot(hm, 0).used /\ Slot(hm, 6).used

(* C4: a put that returns 1 leaves the table as it found it: same          *)
(* capacity, same count, same array with the same contents.                *)
C4_FailedGrowthLeavesTable ==
  (last.op = "put" /\ last.ret = 1) => hm = last.before

(* C5: a put returns 0 or 1; it returns 1 only if a hashmapCreate of a     *)
(* growth failed during the call (no memory, or 2 * tableSize not          *)
(* representable); if it returns 0 the entry is stored.                    *)
C5_PutReturns ==
  (last.op = "put") =>
    /\ last.ret \in {0, 1}
    /\ last.ret = 1 => mem.rejected > last.memBefore.rejected
    /\ last.ret = 0 =>
         /\ Present(hm, last.key)
         /\ hashmapGet(hm, last.key.ptr, last.key.len) = last.value

(* C5 case: a ninth key with the start index of eight stored keys at every *)
(* size; the put grew the table twice and then failed.                     *)
C5_Witness ==
  /\ last.op = "put" /\ last.ret = 1
  /\ last.key = Key(1, 9)
  /\ last.before.tableSize = 16
  /\ hm.tableSize = 64

(* C6: create(c) returns 1 without allocating when c is 0 or no power of   *)
(* two; for a power of two whose calloc succeeds it returns 0 and the      *)
(* table has capacity c, count 0 and c unused slots.                       *)
C6_Create ==
  (last.op = "create") =>
    /\ (last.initialSize = 0 \/ ~IsPowerOfTwo(last.initialSize)) =>
         /\ last.ret = 1
         /\ mem.heap = last.memBefore.heap
         /\ phase = "none"
    /\ (IsPowerOfTwo(last.initialSize) /\ last.fuel # 0) =>
         /\ last.ret = 0
         /\ phase = "live"
         /\ hm.tableSize = last.initialSize
         /\ hm.size = 0
         /\ Len(hm.slots) = last.initialSize
         /\ UsedSlots(hm) = {}
         /\ mem.heap = Append(last.memBefore.heap, 0)
         /\ hm.data = Len(mem.heap)

(* C6 case: create(3) was refused. *)
C6_Witness ==
  last.op = "create" /\ last.initialSize = 3 /\ last.ret = 1

(* C7, as stated: destroyWithOwnership calls the visitor exactly once for  *)
(* each slot occupied when the call starts, and releases the array.        *)
C7_VisitsEveryOccupiedSlot ==
  (last.op = "destroyWithOwnership") =>
    /\ VisitedExactly(last.visited, UsedSlots(last.before))
    /\ ReleasedOnce(last.before.data)

(* C7, amended: destroyWithOwnership calls the visitor on occupied slots   *)
(* only, on none twice, in ascending order; if no call returns Stop it     *)
(* calls it exactly once for each occupied slot; after a Stop the occupied *)
(* slots above the stopping one are not visited; in either case the array  *)
(* is then released.                                                       *)
C7_VisitsEveryOccupiedSlotUnlessStopped ==
  (last.op = "destroyWithOwnership") =>
    /\ NeverStops(last.visited) =>
         VisitedExactly(last.visited, UsedSlots(last.before))
    /\ ~NeverStops(last.visited) =>
         VisitedExactly(last.visited,
                        {i \in UsedSlots(last.before) :
                           i <= last.visited[Len(last.visited)].slot})
    /\ \A j \in 1 .. Len(last.visited) - 1 :
         last.visited[j].slot < last.visited[j + 1].slot
    /\ ReleasedOnce(last.before.data)

(* C7 case: a visitor that never stops, on the table of nine entries. *)
C7_Witness ==
  /\ last.op = "destroyWithOwnership"
  /\ NeverStops(last.visited)
  /\ Len(last.visited) = 9

(* C8: applyIterator with a visitor that always returns Remove returns 0   *)
(* and leaves count 0, no slot used and the capacity as it was; a destroy  *)
(* right after it frees the array exactly once.                            *)
C8_RemoveAllThenDestroy ==
  /\ (last.op = "apply" /\ AlwaysRemoves(last.f)) =>
       /\ last.ret = 0
       /\ hm.size = 0
       /\ UsedSlots(hm) = {}
       /\ hm.tableSize = last.before.tableSize
       /\ Len(hm.slots) = hm.tableSize
       /\ hm.data = last.before.data
       /\ mem = last.memBefore
  /\ (last.op = "destroy" /\ last.prev.op = "apply" /\ AlwaysRemoves(last.prev.f)) =>
       ReleasedOnce(last.before.data)

(* C8 case: the table of nine entries was emptied by the visitor and then  *)
(* destroyed.                                                              *)
C8_Witness ==
  /\ last.op = "destroy"
  /\ last.prev.op = "apply" /\ AlwaysRemoves(last.prev.f)
  /\ last.before.tableSize = 16 /\ last.before.size = 0

(* C9: applyIterator returns 0 exactly if no call of the visitor returned  *)
(* Stop; a Stop is the last call; the slot it stopped at and every slot    *)
(* above it are as before; below it, a slot is zeroed where the visitor    *)
(* returned Remove and as before elsewhere; the count went down by the     *)
(* number of removals.                                                     *)
C9_StopHalts ==
  (last.op = "apply") =>
    LET vis     == last.visited
        stops   == {j \in DOMAIN vis : vis[j].ret \notin {-1, 0}}
        removed == {vis[j].slot : j \in {n \in DOMAIN vis : vis[n].ret = -1}}
    IN  /\ (last.ret = 0) <=> (stops = {})
        /\ last.ret \in {0, 1}
        /\ \A j \in stops :
             /\ j = Len(vis)
             /\ \A i \in vis[j].slot .. hm.tableSize - 1 :
                  Slot(hm, i) = Slot(last.before, i)
        /\ \A j \in 1 .. Len(vis) - 1 : vis[j].slot < vis[j + 1].slot
        /\ hm.tableSize = last.before.tableSize
        /\ \A i \in 0 .. hm.tableSize - 1 :
             Slot(hm, i) = IF i \in removed THEN ZeroElement
                           ELSE Slot(last.before, i)
        /\ hm.size = last.before.size - Cardinality(removed)

(* C9 case: the visitor removed one entry and stopped at the next, with    *)
(* occupied slots left above it.                                           *)
C9_Witness ==
  /\ last.op = "apply" /\ last.ret = 1
  /\ Len(last.visited) = 2 /\ last.visited[1].ret = -1
  /\ \E i \in UsedSlots(hm) : i > last.visited[2].slot

(* C10: get(k) for any k, and remove(k) for a k that is not in the table,  *)
(* leave capacity, count and every slot as they were; the remove returns 1. *)
C10_GetAndAbsentRemoveChangeNothing ==
  /\ (last.op = "get") => (hm = last.before /\ mem = last.memBefore)
  /\ (last.op = "remove" /\ ~Present(last.before, last.key)) =>
       (last.ret = 1 /\ hm = last.before /\ mem = last.memBefore)

(* C10 case: remove of an absent key whose probe window is full of other   *)
(* keys.                                                                   *)
C10_Witness ==
  /\ last.op = "remove" /\ last.ret = 1
  /\ last.before.size = 9
  /\ FreeSteps(last.before,
               hashmapStringHasher(last.before.tableSize, last.key.ptr,
                                   last.key.len)) = {}

(* the slots of the probe window of key k in table h, in probe order *)
Window(h, k) ==
  {ProbeAt(h, hashmapStringHasher(h.tableSize, k.ptr, k.len), i) : i \in ProbeSteps}

SlotKey(h, i) == Key(Slot(h, i).key, Slot(h, i).keyLen)

(* C11: in a live table no two used slots hold keys of the same length and *)
(* the same bytes.                                                         *)
C11_NoDuplicateKeys ==
  (phase = "live") =>
    \A i \in UsedSlots(hm) : \A j \in UsedSlots(hm) :
      (i # j) =>
        ~(/\ Slot(hm, i).keyLen = Slot(hm, j).keyLen
          /\ Content(SlotKey(hm, i)) = Content(SlotKey(hm, j)))

(* C11 case: a put of a key that is in the table, through another slot of  *)
(* its window than the first free one: the slot before the key's own was   *)
(* freed by a remove.                                                      *)
C11_Witness ==
  /\ phase = "live"
  /\ last.op = "put" /\ last.ret = 0 /\ last.prev.op = "remove"
  /\ Present(last.before, last.key)
  /\ hm.tableSize = last.before.tableSize
  /\ \E i \in Window(hm, last.key) :
       /\ ~Slot(hm, i).used
       /\ i = ProbeAt(hm, hashmapStringHasher(hm.tableSize, last.key.ptr, last.key.len), 0)
  /\ hm.size >= 8

(* C12: in a live table, also one left by a put that failed or a traversal *)
(* that stopped, size is the number of used slots, hence within            *)
(* 0 .. tableSize.                                                         *)
C12_CountIsUsedSlots ==
  (phase = "live") =>
    /\ hm.size = Cardinality(UsedSlots(hm))
    /\ 0 <= hm.size /\ hm.size <= hm.tableSize
    /\ Len(hm.slots) = hm.tableSize

(* C12 case: a put that failed while it moved the entries, on a table that *)
(* a traversal had stopped on after removing an entry.                     *)
C12_Witness ==
  /\ phase = "live"
  /\ last.op = "put" /\ last.ret = 1
  /\ last.prev.op = "apply" /\ last.prev.ret = 1
  /\ hm.size < last.before.size
  /\ hm.size > 0

(* C13: the capacity of a live table is a nonzero power of two; a call     *)
(* leaves it at the capacity it found multiplied by a power of two (never  *)
(* below it), and hashmapCreate leaves it at the initial size asked for.   *)
C13_CapacityDoubles ==
  (phase = "live") =>
    /\ IsPowerOfTwo(hm.tableSize)
    /\ (last.op = "create") => hm.tableSize = last.initialSize
    /\ (last.op \notin {"none", "create"}) =>
         /\ hm.tableSize >= last.before.tableSize
         /\ \E e \in 0 .. SizeBits : hm.tableSize = last.before.tableSize * Pow2(e)

(* C13 case: a put that doubled the 16-slot table once and then failed at  *)
(* the next doubling.                                                      *)
C13_Witness ==
  /\ phase = "live"
  /\ last.op = "put" /\ last.ret = 1
  /\ last.before.tableSize = 16
  /\ hm.tableSize = 32

(* the start index of key k in table h *)
StartIndex(h, k) == hashmapStringHasher(h.tableSize, k.ptr, k.len)

(* C14: in a live table every used slot is one of the                      *)
(* HASHMAP_MAX_CHAIN_LENGTH slots that follow (+1 modulo tableSize) the    *)
(* start index of its key at the current tableSize, the start index        *)
(* included.                                                               *)
C14_EntriesWithinWindow ==
  (phase = "live") =>
    \A i \in UsedSlots(hm) : i \in Window(hm, SlotKey(hm, i))

(* C14 case: after a remove, an entry sits at the last step of its window  *)
(* and the slot at its start index is the one the remove freed.            *)
C14_Witness ==
  /\ phase = "live"
  /\ last.op = "remove" /\ last.ret = 0
  /\ \E i \in UsedSlots(hm) :
       /\ i = ProbeAt(hm, StartIndex(hm, SlotKey(hm, i)), HASHMAP_MAX_CHAIN_LENGTH - 1)
       /\ ~Slot(hm, StartIndex(hm, SlotKey(hm, i))).used
       /\ Slot(last.before, StartIndex(hm, SlotKey(hm, i))).used

(* the table holds the same entries: hashmapGet returns for every key what *)
(* it returned before the call                                             *)
SameContents(h, g) ==
  /\ h.size = g.size
  /\ \A k \in AllKeys : hashmapGet(h, k.ptr, k.len) = hashmapGet(g, k.ptr, k.len)

StoredAt(h, i, k, v) ==
  [h.slots EXCEPT ![i + 1] =
     [key |-> k.ptr, keyLen |-> k.len, used |-> TRUE, data |-> v]]

(* the call tried to grow the table: it called hashmapCreate *)
TriedToGrow ==
  \/ Len(mem.heap) > Len(last.memBefore.heap)
  \/ mem.rejected > last.memBefore.rejected

(* C16: a put of a key that no slot of its window holds: if the eight      *)
(* slots of the window are all used, hashmapGetBucket reports no bucket    *)
(* and the put grows the table (it returns 0 only with a larger            *)
(* capacity), whatever the count and however many slots are free outside   *)
(* the window; if the window has an unused slot, the put returns 0 without *)
(* growing and stores the key in the first unused slot in probe order      *)
(* from the start index, every other slot as before.                       *)
C16_ProbeStaysInWindow ==
  (last.op = "put"
     /\ MatchSteps(last.before, StartIndex(last.before, last.key),
                   last.key.ptr, last.key.len) = {}) =>
    /\ (FreeSteps(last.before, StartIndex(last.before, last.key)) = {}) =>
         /\ ~hashmapGetBucket(last.before, last.key.ptr, last.key.len).found
         /\ TriedToGrow
         /\ last.ret = 0 => hm.tableSize > last.before.tableSize
         /\ last.ret = 1 => mem.rejected > last.memBefore.rejected
    /\ (FreeSteps(last.before, StartIndex(last.before, last.key)) # {}) =>
         /\ hashmapGetBucket(last.before, last.key.ptr, last.key.len) =
              [found |-> TRUE,
               outIndex |->
                 ProbeAt(last.before, StartIndex(last.before, last.key),
                         Least(FreeSteps(last.before,
                                         StartIndex(last.before, last.key))))]
         /\ last.ret = 0
         /\ ~TriedToGrow
         /\ hm.tableSize = last.before.tableSize
         /\ hm.data = last.before.data
         /\ hm.slots =
              StoredAt(last.before,
                       ProbeAt(last.before, StartIndex(last.before, last.key),
                               Least(FreeSteps(last.before,
                                               StartIndex(last.before, last.key)))),
                       last.key, last.value)

(* C16 case: a put of an absent key whose window of eight slots is full,   *)
(* on a 16-slot table with nine entries: seven slots are free outside the  *)
(* window, and the put grew the table and stored the key.                  *)
C16_Witness ==
  /\ last.op = "put" /\ last.ret = 0
  /\ ~Present(last.before, last.key)
  /\ FreeSteps(last.before, StartIndex(last.before, last.key)) = {}
  /\ last.before.size < last.before.tableSize
  /\ hm.tableSize > last.before.tableSize
  /\ Present(hm, last.key)

(* C17: on a table with size >= tableSize hashmapGetBucket reports no      *)
(* bucket for every key, one that is in the table included; a put on such  *)
(* a table tries to grow it, returns 0 only with a larger capacity, and    *)
(* if the key was in the table and the put returns 0, the count is as      *)
(* before, get returns the new value and one slot holds the key.           *)
C17_FullTableGrowsFirst ==
  /\ (phase = "live" /\ hm.size >= hm.tableSize) =>
       \A k \in AllKeys : ~hashmapGetBucket(hm, k.ptr, k.len).found
  /\ (last.op = "put" /\ last.before.size >= last.before.tableSize) =>
       /\ TriedToGrow
       /\ last.ret \in {0, 1}
       /\ last.ret = 1 => mem.rejected > last.memBefore.rejected
       /\ last.ret = 0 =>
            /\ hm.tableSize > last.before.tableSize
            /\ hashmapGet(hm, last.key.ptr, last.key.len) = last.value
            /\ Cardinality({i \in UsedSlots(hm) : HoldsKey(Slot(hm, i), last.key)}) = 1
            /\ Present(last.before, last.key) => hm.size = last.before.size

(* C17 case: a put of a key that is in the full 2-slot table, with another *)
(* value: the table grew to 4 slots and still holds two entries.           *)
C17_Witness ==
  /\ last.op = "put" /\ last.ret = 0
  /\ last.before.size = last.before.tableSize
  /\ Present(last.before, last.key)
  /\ hashmapGet(last.before, last.key.ptr, last.key.len) # last.value
  /\ hm.tableSize = 2 * last.before.tableSize
  /\ hm.size = last.before.size

(* the largest capacity an unsigned of SizeBits bits holds *)
TopCapacity == Pow2(SizeBits - 1)

(* C18: on a table of capacity 2^(w-1), w the width of unsigned, a         *)
(* hashmapExpand, and a hashmapPut that finds no bucket, return 1 after a  *)
(* hashmapCreate(0) that is refused before it allocates, and leave the     *)
(* table as it was; no call leaves a live table with a smaller capacity    *)
(* than it found.                                                          *)
C18_OverflowIsRefused ==
  /\ (last.op = "expand" /\ last.before.tableSize = TopCapacity) =>
       /\ last.ret = 1
       /\ hm = last.before
       /\ mem.heap = last.memBefore.heap
       /\ mem.rejected = last.memBefore.rejected + 1
       /\ mem.nomem = last.memBefore.nomem
  /\ (last.op = "put" /\ last.before.tableSize = TopCapacity
        /\ ~hashmapGetBucket(last.before, last.key.ptr, last.key.len).found) =>
       /\ last.ret = 1
       /\ hm = last.before
       /\ mem.heap = last.memBefore.heap
       /\ mem.rejected = last.memBefore.rejected + 1
       /\ mem.nomem = last.memBefore.nomem
  /\ (phase = "live" /\ last.op \notin {"none", "create"}) =>
       (hm.tableSize >= last.before.tableSize /\ hm.tableSize > 0)

(* C18 case: a put of a ninth key with the start index of eight stored     *)
(* keys, on a table of capacity 2^(w-1).                                   *)
C18_Witness ==
  /\ last.op = "put" /\ last.ret = 1
  /\ last.before.tableSize = TopCapacity
  /\ last.before.size >= 8
  /\ Unsigned(2 * last.before.tableSize) = 0
  /\ hm = last.before

(* C19: after a hashmapExpand, every array allocated during the call is    *)
(* the table's array or has been freed, and if it returned 0 the array the *)
(* table had before has been freed once.                                   *)
C19_GrowthLeaksNothing ==
  (last.op = "expand") =>
    /\ \A p \in DOMAIN mem.heap :
         (p > Len(last.memBefore.heap)) => (p = hm.data \/ mem.heap[p] = 1)
    /\ last.ret = 0 => mem.heap[last.before.data] = 1

(* C20: a hashmapApplyIterator in which no call of the visitor returned    *)
(* Stop returns 0; the visitor was called once on each slot used at the    *)
(* start of the call and on no other, in ascending order of index; a slot  *)
(* where it returned 0 is as before, a slot where it returned -1 is        *)
(* zeroed, and size went down by the number of the latter.                 *)
C20_VisitsAllInOrder ==
  (last.op = "apply" /\ NeverStops(last.visited)) =>
    /\ last.ret = 0
    /\ VisitedExactly(last.visited, UsedSlots(last.before))
    /\ \A j \in 1 .. Len(last.visited) - 1 :
         last.visited[j].slot < last.visited[j + 1].slot
    /\ \A j \in DOMAIN last.visited :
         Slot(hm, last.visited[j].slot) =
           IF last.visited[j].ret = 0 THEN Slot(last.before, last.visited[j].slot)
           ELSE ZeroElement
    /\ \A i \in (0 .. hm.tableSize - 1) \ UsedSlots(last.before) :
         Slot(hm, i) = Slot(last.before, i)
    /\ hm.tableSize = last.before.tableSize
    /\ hm.size = last.before.size
                   - Cardinality({j \in DOMAIN last.visited : last.visited[j].ret = -1})

(* C20 case: a visitor that returns Continue at every call, on the table   *)
(* of nine entries whose slots 0..7 and 15 are used.                       *)
C20_Witness ==
  /\ last.op = "apply" /\ last.ret = 0
  /\ Len(last.visited) = 9
  /\ \A j \in DOMAIN last.visited : last.visited[j].ret = 0
  /\ last.visited[1].slot = 0 /\ last.visited[9].slot = 15
  /\ hm = last.before

(* C21: hashmapGet reports a key as not found, by returning NULL, exactly  *)
(* when no used slot holds the key; after a put(k, v) that returned 0,     *)
(* for every v the put takes, NULL included, get(k) returns v and does     *)
(* not report k as not found.                                              *)
C21_NotFoundIffAbsent ==
  /\ (phase = "live") =>
       \A k \in AllKeys : (hashmapGet(hm, k.ptr, k.len) = 0) <=> ~Present(hm, k)
  /\ (last.op = "put" /\ last.ret = 0) =>
       /\ hashmapGet(hm, last.key.ptr, last.key.len) = last.value
       /\ hashmapGet(hm, last.key.ptr, last.key.len) # 0
====
